---- MODULE Spec2Model ----
(***************************************************************************)
(* Model of wooting-analog-midi-core: the per-key analog-to-MIDI state      *)
(* machine (KeyState), the MidiService that drives it (poll, set_config,    *)
(* select_port), the bytes of the MIDI sink (note.rs), and the polling and  *)
(* event loop threads of main.rs around the mutex-guarded Service.          *)
(*                                                                          *)
(* Spec is the MidiService under any sequence of calls by one owner;        *)
(* MainSpec is main.rs from the spawn of the polling loop on.               *)
(*                                                                          *)
(* Numbers.  Depths (f32 in [0,1]) are integers in hundredths, velocities   *)
(* are integers in thousandths, velocity_scale is in tenths, Instants are   *)
(* counted in polling periods of TickMs milliseconds.                       *)
(***************************************************************************)
EXTENDS Integers, Sequences, FiniteSets, TLC

\* ---------------------------------------------------------------- bounds
MaxTime == 4          \* number of polling periods explored

\* ------------------------------------------------------------- constants
TickMs == 5           \* REFRESH_RATE = 200 Hz
MIDI_NOTE_MIN == 21
MIDI_NOTE_MAX == 108
AFTERTOUCH == TRUE
VelocityOne == 1000   \* the f32 1.0 of a velocity, in thousandths

\* Option<T>: None is the empty sequence, Some(x) the sequence of x alone.
None == <<>>
Some(x) == <<x>>

\* HID codes of the model.  RightShift is never part of a snapshot, so the
\* lookups of it take the map_or / unwrap_or default.
NoteCodes == {"F13", "F14"}
SnapshotCodes == NoteCodes \cup {"Escape", "LeftShift"}
\* The depths a snapshot reports, in hundredths.
F13Depths == {0, 50, 90}
F14Depths == {0, 90}
ControlDepths == {0, 50}
\* env_logger's default filter is "info": info! evaluates its arguments.
LogInfoEnabled == TRUE

KeyConfig_default ==
    [note_id |-> 60, channel |-> 0, actuation_point |-> 0, threshold |-> 80,
     velocity_scale |-> 50, aftertouch |-> TRUE, shift_amount |-> 12]

Config_default ==
    [toggle_keys |-> {}, modifier_keys |-> {"LeftShift", "RightShift"},
     key_configs |-> [k \in {} |-> KeyConfig_default]]

\* Two keys: F13 is the default key, F14 has a slow velocity scale and a
\* note that the shift moves out of the MIDI range.
ConfigA ==
    [toggle_keys |-> {"Escape"}, modifier_keys |-> {"LeftShift"},
     key_configs |->
        [k \in {"F13", "F14"} |->
            IF k = "F13" THEN KeyConfig_default
            ELSE [note_id |-> 100, channel |-> 1, actuation_point |-> 0,
                  threshold |-> 80, velocity_scale |-> 5,
                  aftertouch |-> TRUE, shift_amount |-> 12]]]

\* One key with a low threshold, another note and channel and a downward
\* shift.
ConfigB ==
    [toggle_keys |-> {"Escape"}, modifier_keys |-> {"LeftShift"},
     key_configs |->
        [k \in {"F13"} |->
            [note_id |-> 62, channel |-> 2, actuation_point |-> 0,
             threshold |-> 40, velocity_scale |-> 50,
             aftertouch |-> TRUE, shift_amount |-> -12]]]

\* One key with a low threshold and aftertouch disabled.
ConfigC ==
    [toggle_keys |-> {"Escape"}, modifier_keys |-> {"LeftShift"},
     key_configs |->
        [k \in {"F13"} |->
            [note_id |-> 64, channel |-> 3, actuation_point |-> 0,
             threshold |-> 40, velocity_scale |-> 50,
             aftertouch |-> FALSE, shift_amount |-> 12]]]

\* The configurations set_config is called with.
Configs == {ConfigA, ConfigB, ConfigC}

\* The snapshots sdk::read_full_buffer can return.
Snapshots ==
    {[c \in SnapshotCodes |->
        IF c = "F13" THEN a ELSE IF c = "F14" THEN b
        ELSE IF c = "Escape" THEN t ELSE m] :
        a \in F13Depths, b \in F14Depths, t \in ControlDepths, m \in ControlDepths}

VARIABLES
    connection,         \* MidiService.connection is Some
    config,             \* MidiService.config
    key_states,         \* MidiService.key_states
    enabled,            \* MidiService.enabled
    enabled_key_state,  \* MidiService.enabled_key_state
    key_order,          \* the iteration order of the key_states hash map
    now,                \* the clock read by Instant::now()
    panicked,           \* a call has panicked (the owning mutex is poisoned)
    op,                 \* the last operation called
    result,             \* what the last poll or set_config returned
    analog_data,        \* the snapshot the last poll read, or None
    events,             \* the NoteSink calls the last operation sent, in order
    visited,            \* the keys whose update_value the last poll called
    new_config_arg,     \* the configuration a set_config that returned Ok was called with
    sounding,           \* per key, the last note_on sent under the live configuration
                        \* and whether a note_off has followed it
    send_failed,        \* a sink send has failed under the live configuration
    stop,               \* Service.stop
    lock,               \* the Mutex around the Service: "free", its holder, or "poisoned"
    pc_poll,            \* where the polling thread is
    pc_ctl              \* where the control (event loop) thread is

\* The state of main.rs around the MidiService.
main_vars == <<stop, lock, pc_poll, pc_ctl>>

vars == <<connection, config, key_states, enabled,
          enabled_key_state, key_order, now, panicked, op, result, analog_data, events,
          visited, new_config_arg, sounding, send_failed, stop, lock, pc_poll, pc_ctl>>

\* ------------------------------------------------------------- KeyState
KeyState_new ==
    [pressed |-> FALSE, shifted_amount |-> 0, velocity |-> 0,
     current_value |-> 0, lower_press |-> None]

Abs(x) == IF x < 0 THEN -x ELSE x

\* Mutant: the clamp without its upper bound.
Clamp01_no_upper(v) == IF v < 0 THEN 0 ELSE v

\* f32::clamp(0.0, 1.0) of a velocity in thousandths.
Clamp01(v) == IF v < 0 THEN 0 ELSE IF v > VelocityOne THEN VelocityOne ELSE v

\* Mutant: the estimate divides by one polling period, not by the time since
\* the anchor.
estimate_velocity_one_period(new_value, prev_depth, duration, velocity_scale) ==
    Clamp01(((new_value - prev_depth) * velocity_scale * 10) \div TickMs)

\* (new_value - prev_depth) / duration * velocity_scale / 100, clamped; the
\* duration is in milliseconds, and a zero duration divides to an infinity
\* that the clamp maps to 0 or 1.
estimate_velocity(new_value, prev_depth, duration, velocity_scale) ==
    IF duration = 0
    THEN (IF new_value > prev_depth THEN VelocityOne ELSE 0)
    ELSE Clamp01(((new_value - prev_depth) * velocity_scale * 10) \div duration)

\* Anchor (re)establishment and velocity estimation.
update_anchor(self, key_config, new_value, t) ==
    IF \/ /\ self.current_value <= key_config.actuation_point
          /\ new_value > key_config.actuation_point
          /\ new_value < key_config.threshold
       \/ new_value <= key_config.actuation_point
    THEN [self EXCEPT !.lower_press = Some([time |-> t, depth |-> new_value]),
                      !.velocity = 0]
    ELSE IF self.lower_press # None
    THEN LET prev_time == self.lower_press[1].time
             prev_depth == self.lower_press[1].depth
             duration == (t - prev_time) * TickMs
             v == IF new_value # prev_depth
                  THEN estimate_velocity(new_value, prev_depth, duration,
                                         key_config.velocity_scale)
                  ELSE 0
         IN  IF Abs(prev_depth - new_value) < 1
                \/ new_value < self.current_value - 1
             THEN [self EXCEPT !.velocity = v,
                               !.lower_press = Some([time |-> t, depth |-> new_value])]
             ELSE [self EXCEPT !.velocity = v]
    ELSE self

\* Mutant: the latch without the `!self.pressed` condition.
latch_shift_while_pressed(self, shifted_amount) ==
    IF shifted_amount # self.shifted_amount
    THEN [self EXCEPT !.shifted_amount = shifted_amount]
    ELSE self

\* The shift latch.
latch_shift(self, shifted_amount) ==
    IF shifted_amount # self.shifted_amount /\ ~self.pressed
    THEN [self EXCEPT !.shifted_amount = shifted_amount]
    ELSE self

\* Mutant: the range check without its upper bound.
get_effective_note_no_max(self, base_note) ==
    LET computed == base_note + self.shifted_amount
    IN  IF computed >= MIDI_NOTE_MIN THEN Some(computed) ELSE None

get_effective_note(self, base_note) ==
    LET computed == base_note + self.shifted_amount
    IN  IF computed >= MIDI_NOTE_MIN /\ computed <= MIDI_NOTE_MAX
        THEN Some(computed) ELSE None

SinkCall(type, key, note, value, channel) ==
    [type |-> type, key |-> key, note |-> note, value |-> value,
     channel |-> channel]

\* The aftertouch condition of the pressed branch.
aftertouch_enabled(key_config) == AFTERTOUCH

\* Mutant: the aftertouch branch is not an else of the note_on branch.
sink_calls_no_else(self, key, key_config, new_value) ==
    LET computed == key_config.note_id + self.shifted_amount
        on == IF ~self.pressed
              THEN <<SinkCall("note_on", key, computed, self.velocity,
                              key_config.channel)>>
              ELSE <<>>
        touch == IF new_value # self.current_value
                 THEN <<SinkCall("polyphonic_aftertouch", key, computed,
                                 new_value, key_config.channel)>>
                 ELSE <<>>
    IN  IF computed < MIDI_NOTE_MIN \/ computed > MIDI_NOTE_MAX THEN <<>>
        ELSE IF new_value > key_config.threshold THEN on \o touch
        ELSE IF self.pressed
        THEN <<SinkCall("note_off", key, computed, self.velocity,
                        key_config.channel)>>
        ELSE <<>>

\* The sink calls of the trigger decision, for a state that has passed the
\* anchor and latch steps.
sink_calls(self, key, key_config, new_value) ==
    LET effective_note == get_effective_note(self, key_config.note_id)
    IN  IF effective_note = None THEN <<>>
        ELSE IF new_value > key_config.threshold
        THEN IF ~self.pressed
             THEN <<SinkCall("note_on", key, effective_note[1], self.velocity,
                             key_config.channel)>>
             ELSE IF aftertouch_enabled(key_config) /\ new_value # self.current_value
             THEN <<SinkCall("polyphonic_aftertouch", key, effective_note[1],
                             new_value, key_config.channel)>>
             ELSE <<>>
        ELSE IF self.pressed
        THEN <<SinkCall("note_off", key, effective_note[1], self.velocity,
                        key_config.channel)>>
        ELSE <<>>

\* Mutant: `self.pressed = true` is missing after the note_on.
after_send_forgets_pressed(self, calls) ==
    IF \E i \in 1..Len(calls) : calls[i].type = "note_off"
    THEN [self EXCEPT !.pressed = FALSE]
    ELSE self

\* Mutant: `self.pressed = false` is missing after the note_off.
after_send_keeps_pressed(self, calls) ==
    IF \E i \in 1..Len(calls) : calls[i].type = "note_on"
    THEN [self EXCEPT !.pressed = TRUE]
    ELSE self

\* The pressed flag after the calls were sent: set after a note_on, cleared
\* after a note_off.
after_send(self, calls) ==
    IF \E i \in 1..Len(calls) : calls[i].type = "note_on"
    THEN [self EXCEPT !.pressed = TRUE]
    ELSE IF \E i \in 1..Len(calls) : calls[i].type = "note_off"
    THEN [self EXCEPT !.pressed = FALSE]
    ELSE self

\* Mutant: the pressed flag is set or cleared before the send is tried.
trigger_flag_before_send(self, key, key_config, new_value, sink_fails, li) ==
    LET calls == sink_calls(self, key, key_config, new_value)
    IN  IF calls = <<>>
        THEN [state |-> self, sent |-> <<>>, result |-> "ok"]
        ELSE IF calls[1].type = "note_on" /\ li /\ self.lower_press = None
        THEN [state |-> self, sent |-> <<>>, result |-> "panic"]
        ELSE IF sink_fails
        THEN [state |-> after_send(self, calls), sent |-> <<>>, result |-> "send_error"]
        ELSE [state |-> after_send(self, calls), sent |-> calls, result |-> "ok"]

\* The trigger decision.  sink_fails: the sink's send returns an error;
\* li: the info! arguments (the unwrap of lower_press) are evaluated.
trigger(self, key, key_config, new_value, sink_fails, li) ==
    LET calls == sink_calls(self, key, key_config, new_value)
    IN  IF calls = <<>>
        THEN [state |-> self, sent |-> <<>>, result |-> "ok"]
        ELSE IF calls[1].type = "note_on" /\ li /\ self.lower_press = None
        THEN [state |-> self, sent |-> <<>>, result |-> "panic"]
        ELSE IF sink_fails
        THEN [state |-> self, sent |-> <<>>, result |-> "send_error"]
        ELSE [state |-> after_send(self, calls), sent |-> calls, result |-> "ok"]

\* KeyState::update_value: the new state, the sink calls sent and the result.
update_value(self, key, key_config, new_value, sink_fails, shifted_amount, t, li) ==
    LET anchored == update_anchor(self, key_config, new_value, t)
        latched == latch_shift(anchored, shifted_amount)
        r == trigger(latched, key, key_config, new_value, sink_fails, li)
    IN  IF r.result = "ok"
        THEN [r EXCEPT !.state = [r.state EXCEPT !.current_value = new_value]]
        ELSE r

\* ------------------------------------------------------------- NoteSink
NOTE_ON_MSG == 144
NOTE_OFF_MSG == 128
POLY_AFTERTOUCH_MSG == 160
DataByteScale == 127   \* the factor 127.0 of the data byte

\* The u8 operator `|`.
RECURSIVE BitOr(_, _)
BitOr(a, b) ==
    IF a = 0 THEN b ELSE IF b = 0 THEN a
    ELSE (IF a % 2 = 1 \/ b % 2 = 1 THEN 1 ELSE 0) + 2 * BitOr(a \div 2, b \div 2)

\* f32::min(value, 1.0), for a value in units of 1/one.
min_one(value, one) == IF value < one THEN value ELSE one

\* `as u8` of the f32 num / den (den > 0): the fraction is dropped and the
\* result saturates at 0 and 255.
as_u8(num, den) ==
    IF num < 0 THEN 0 ELSE IF num \div den > 255 THEN 255 ELSE num \div den

\* (f32::min(value, 1.0) * 127.0) as u8
data_byte(value, one) == as_u8(min_one(value, one) * DataByteScale, one)

\* The units of a sink call's value: a velocity is in thousandths, a
\* pressure (a depth) in hundredths.
ValueOne(type) == IF type = "polyphonic_aftertouch" THEN 100 ELSE VelocityOne

status_byte(type) ==
    IF type = "note_on" THEN NOTE_ON_MSG
    ELSE IF type = "note_off" THEN NOTE_OFF_MSG
    ELSE POLY_AFTERTOUCH_MSG

\* The bytes the MidiOutputConnection sink sends for a call.
midi_bytes(call) ==
    <<BitOr(status_byte(call.type), call.channel), call.note,
      data_byte(call.value, ValueOne(call.type))>>

\* ---------------------------------------------------------- MidiService
NoKey == "none"

\* The orders in which a hash map over the keys S can be iterated.
Orders(S) ==
    {o \in [1..Cardinality(S) -> S] : \A i, j \in 1..Cardinality(S) : o[i] = o[j] => i = j}

\* analog_data.get(code).map_or(false, |v| v > 0.0) over a key list.
any_pressed(codes, data) ==
    \E code \in codes : code \in DOMAIN data /\ data[code] > 0

\* analog_data.get(code).copied().unwrap_or(0.0)
depth_of(data, code) == IF code \in DOMAIN data THEN data[code] ELSE 0

\* Mutant: the toggle is level-triggered.
toggle_step_level(en, en_key_state, toggle_pressed) ==
    [enabled |-> IF toggle_pressed THEN ~en ELSE en,
     enabled_key_state |-> toggle_pressed]

\* The edge-triggered toggle of the enabled flag.
toggle_step(en, en_key_state, toggle_pressed) ==
    IF toggle_pressed # en_key_state
    THEN [enabled |-> IF toggle_pressed THEN ~en ELSE en,
          enabled_key_state |-> toggle_pressed]
    ELSE [enabled |-> en, enabled_key_state |-> en_key_state]

\* modifier_pressed as i8 * key_config.shift_amount
shift_for(modifier_pressed, key_config) ==
    (IF modifier_pressed THEN 1 ELSE 0) * key_config.shift_amount

\* Mutant: the key loop goes on after a failed send and returns the error at
\* its end.
RECURSIVE poll_keys_no_abort(_, _, _, _, _, _, _, _, _, _, _)
poll_keys_no_abort(order, i, states, cfg, data, modifier_pressed, fail_key, t, li, sent, seen) ==
    IF i > Len(order)
    THEN [states |-> states, sent |-> sent, visited |-> seen, result |-> "ok"]
    ELSE LET hid_code == order[i]
             key_config == cfg.key_configs[hid_code]
             r == update_value(states[hid_code], hid_code, key_config,
                               depth_of(data, hid_code), fail_key = hid_code,
                               shift_for(modifier_pressed, key_config), t, li)
             rest == poll_keys_no_abort(order, i + 1,
                        [states EXCEPT ![hid_code] = r.state], cfg, data,
                        modifier_pressed, fail_key, t, li, sent \o r.sent,
                        seen \cup {hid_code})
         IN  IF r.result = "ok" THEN rest
             ELSE IF r.result = "panic"
             THEN [states |-> [states EXCEPT ![hid_code] = r.state],
                   sent |-> sent \o r.sent, visited |-> seen \cup {hid_code},
                   result |-> r.result]
             ELSE [rest EXCEPT !.result = r.result]

\* The key loop of poll from position i of the iteration order: the first
\* error ends it.
RECURSIVE poll_keys(_, _, _, _, _, _, _, _, _, _, _)
poll_keys(order, i, states, cfg, data, modifier_pressed, fail_key, t, li, sent, seen) ==
    IF i > Len(order)
    THEN [states |-> states, sent |-> sent, visited |-> seen, result |-> "ok"]
    ELSE LET hid_code == order[i]
         IN  IF hid_code \in DOMAIN cfg.key_configs
             THEN LET key_config == cfg.key_configs[hid_code]
                      r == update_value(states[hid_code], hid_code, key_config,
                                        depth_of(data, hid_code), fail_key = hid_code,
                                        shift_for(modifier_pressed, key_config), t, li)
                      states2 == [states EXCEPT ![hid_code] = r.state]
                  IN  IF r.result = "ok"
                      THEN poll_keys(order, i + 1, states2, cfg, data, modifier_pressed,
                                     fail_key, t, li, sent \o r.sent, seen \cup {hid_code})
                      ELSE [states |-> states2, sent |-> sent \o r.sent,
                            visited |-> seen \cup {hid_code}, result |-> r.result]
             ELSE poll_keys(order, i + 1, states, cfg, data, modifier_pressed,
                            fail_key, t, li, sent, seen)

\* The note_off loop of set_config from position i of the iteration order.
RECURSIVE cleanup_notes(_, _, _, _, _, _)
cleanup_notes(order, i, states, cfg, fail_key, sent) ==
    IF i > Len(order) THEN [sent |-> sent, result |-> "ok"]
    ELSE LET hid_code == order[i]
             state == states[hid_code]
         IN  IF state.pressed /\ hid_code \in DOMAIN cfg.key_configs
                /\ get_effective_note(state, cfg.key_configs[hid_code].note_id) # None
             THEN IF fail_key = hid_code
                  THEN [sent |-> sent, result |-> "send_error"]
                  ELSE cleanup_notes(order, i + 1, states, cfg, fail_key,
                         Append(sent,
                            SinkCall("note_off", hid_code,
                                get_effective_note(state, cfg.key_configs[hid_code].note_id)[1],
                                state.velocity, cfg.key_configs[hid_code].channel)))
             ELSE cleanup_notes(order, i + 1, states, cfg, fail_key, sent)

\* Mutant: set_config without its clean-up loop.
set_config_cleanup_skipped(conn, order, states, cfg, fail_key) ==
    [sent |-> <<>>, result |-> IF fail_key = NoKey THEN "ok" ELSE "send_error"]

\* The note_off calls of set_config: none without a connection.
set_config_cleanup(conn, order, states, cfg, fail_key) ==
    IF conn THEN cleanup_notes(order, 1, states, cfg, fail_key, <<>>)
    ELSE [sent |-> <<>>, result |-> "ok"]

\* Mutant: `self.key_states.clear()` is missing.
rebuild_key_states_no_clear(old_states, new_config) ==
    [hid_code \in DOMAIN old_states \cup DOMAIN new_config.key_configs |->
        IF hid_code \in DOMAIN new_config.key_configs THEN KeyState_new
        ELSE old_states[hid_code]]

\* Mutant: the new KeyStates are inserted for the keys of the old map.
rebuild_key_states_from_old(old_states, new_config) ==
    [hid_code \in DOMAIN old_states |-> KeyState_new]

\* The key states after the swap: the map is cleared and gets a new
\* KeyState for every configured key.
rebuild_key_states(old_states, new_config) ==
    [hid_code \in DOMAIN new_config.key_configs |-> KeyState_new]

\* Mutants: an early return of poll is missing.
connection_missing_ignored(conn) == FALSE
tick_ends_never(en) == FALSE

\* The early returns of poll.
connection_missing(conn) == ~conn
tick_ends(en) == ~en

\* The record of each key's last note_on after the sink calls `sent`.
RECURSIVE apply_sent(_, _, _)
apply_sent(snd, sent, i) ==
    IF i > Len(sent) THEN snd
    ELSE LET e == sent[i]
         IN  apply_sent(
                IF e.type = "note_on"
                THEN [snd EXCEPT ![e.key] =
                        Some([note |-> e.note, channel |-> e.channel, on |-> TRUE])]
                ELSE IF e.type = "note_off" /\ snd[e.key] # None
                THEN [snd EXCEPT ![e.key] = Some([snd[e.key][1] EXCEPT !.on = FALSE])]
                ELSE snd, sent, i + 1)

Init ==
    /\ connection = FALSE
    /\ config = Config_default
    /\ key_states = [hid_code \in {} |-> KeyState_new]
    /\ enabled = FALSE
    /\ enabled_key_state = FALSE
    /\ now = 0
    /\ key_order = <<>>
    /\ panicked = FALSE
    /\ op = "new"
    /\ result = "ok"
    /\ analog_data = None
    /\ events = <<>>
    /\ visited = {}
    /\ new_config_arg = None
    /\ sounding = [k \in NoteCodes |-> None]
    /\ send_failed = FALSE
    /\ stop = FALSE
    /\ lock = "free"
    /\ pc_poll = "unspawned"
    /\ pc_ctl = "setup"

\* MidiService::poll.  read is None when sdk::read_full_buffer fails, fail_key
\* is the key whose sink send fails in this call (NoKey: every send succeeds).
poll(read, fail_key) ==
    /\ ~panicked
    /\ now < MaxTime
    /\ now' = now + 1
    /\ op' = "poll"
    /\ new_config_arg' = None
    /\ UNCHANGED <<connection, config, key_order>>
    /\ IF connection_missing(connection)
       THEN /\ result' = "no_connection"
            /\ analog_data' = None
            /\ events' = <<>>
            /\ visited' = {}
            /\ UNCHANGED <<key_states, enabled, enabled_key_state, panicked,
                           sounding, send_failed>>
       ELSE IF read = None
       THEN /\ fail_key = NoKey
            /\ result' = "read_error"
            /\ analog_data' = None
            /\ events' = <<>>
            /\ visited' = {}
            /\ UNCHANGED <<key_states, enabled, enabled_key_state, panicked,
                           sounding, send_failed>>
       ELSE LET data == read[1]
                tg == toggle_step(enabled, enabled_key_state,
                                  any_pressed(config.toggle_keys, data))
            IN  /\ analog_data' = read
                /\ enabled' = tg.enabled
                /\ enabled_key_state' = tg.enabled_key_state
                /\ IF tick_ends(tg.enabled)
                   THEN /\ fail_key = NoKey
                        /\ result' = "ok"
                        /\ events' = <<>>
                        /\ visited' = {}
                        /\ UNCHANGED <<key_states, panicked, sounding, send_failed>>
                   ELSE \E r \in {poll_keys(key_order, 1, key_states, config, data,
                                     any_pressed(config.modifier_keys, data),
                                     fail_key, now + 1, LogInfoEnabled, <<>>, {})} :
                            /\ fail_key # NoKey => r.result = "send_error"
                            /\ key_states' = r.states
                            /\ events' = r.sent
                            /\ visited' = r.visited
                            /\ result' = r.result
                            /\ panicked' = (r.result = "panic")
                            /\ sounding' = apply_sent(sounding, r.sent, 1)
                            /\ send_failed' = (send_failed \/ r.result = "send_error")

\* Mutant: the swap is made although a note_off send has failed.
set_config_swaps_on_error(new_config, order, fail_key) ==
    /\ ~panicked
    /\ op' = "set_config"
    /\ \E r \in {set_config_cleanup(connection, key_order, key_states, config, fail_key)} :
           /\ fail_key # NoKey => r.result = "send_error"
           /\ events' = r.sent
           /\ result' = r.result
           /\ config' = new_config
           /\ new_config_arg' = IF r.result = "ok" THEN Some(new_config) ELSE None
           /\ key_states' = rebuild_key_states(key_states, new_config)
           /\ key_order' = order
           /\ sounding' = [k \in NoteCodes |-> None]
           /\ send_failed' = FALSE
    /\ analog_data' = None
    /\ visited' = {}
    /\ UNCHANGED <<connection, enabled, enabled_key_state, now,
                   panicked>>

\* MidiService::set_config.  order is the iteration order of the rebuilt
\* key_states map, fail_key the key whose note_off send fails.
set_config(new_config, order, fail_key) ==
    /\ ~panicked
    /\ op' = "set_config"
    /\ \E r \in {set_config_cleanup(connection, key_order, key_states, config, fail_key)} :
           /\ fail_key # NoKey => r.result = "send_error"
           /\ events' = r.sent
           /\ result' = r.result
           /\ IF r.result = "ok"
              THEN /\ config' = new_config
                   /\ new_config_arg' = Some(new_config)
                   /\ key_states' = rebuild_key_states(key_states, new_config)
                   /\ key_order' = order
                   /\ sounding' = [k \in NoteCodes |-> None]
                   /\ send_failed' = FALSE
              ELSE /\ sounding' = apply_sent(sounding, r.sent, 1)
                   /\ send_failed' = TRUE
                   /\ new_config_arg' = None
                   /\ UNCHANGED <<config, key_states, key_order>>
    /\ analog_data' = None
    /\ visited' = {}
    /\ UNCHANGED <<connection, enabled, enabled_key_state, now,
                   panicked>>

\* MidiService::select_port: the old connection is dropped before the new
\* one is opened.  in_range says whether option < port_options.len(),
\* connect_ok whether midir's connect succeeds.  (uninit leaves the service
\* as a failed connect does.)
select_port(in_range, connect_ok) ==
    /\ ~panicked
    /\ op' = "select_port"
    /\ new_config_arg' = None
    /\ result' = "none"
    /\ IF ~in_range
       THEN UNCHANGED connection
       ELSE connection' = connect_ok
    /\ analog_data' = None
    /\ events' = <<>>
    /\ visited' = {}
    /\ UNCHANGED <<config, key_states, key_order, enabled, enabled_key_state,
                   now, panicked, sounding, send_failed>>

\* The inputs of poll: nothing is read and nothing is sent without a
\* connection.
PollReads ==
    IF connection_missing(connection) THEN {None}
    ELSE {None} \cup {Some(d) : d \in Snapshots}
FailKeys == IF connection THEN DOMAIN key_states \cup {NoKey} ELSE {NoKey}

\* The MidiService under any sequence of calls by one owner.
Next ==
    \/ \E read \in PollReads, fail_key \in FailKeys :
          poll(read, fail_key) /\ UNCHANGED main_vars
    \/ \E new_config \in Configs, fail_key \in FailKeys :
          \E order \in Orders(DOMAIN new_config.key_configs) :
             set_config(new_config, order, fail_key) /\ UNCHANGED main_vars
    \/ \E in_range \in BOOLEAN, connect_ok \in BOOLEAN :
          select_port(in_range, connect_ok) /\ UNCHANGED main_vars

Spec == Init /\ [][Next]_vars

\* ------------------------------------------------------------------ main
\* The state in which main spawns the polling loop: the set-up block has
\* opened a port and applied a configuration (its `?` leaves main otherwise),
\* stop is false and the lock is free.
MainInit ==
    /\ connection = TRUE
    /\ \E new_config \in Configs :
          /\ config = new_config
          /\ key_states = rebuild_key_states(<<>>, new_config)
          /\ key_order \in Orders(DOMAIN new_config.key_configs)
    /\ enabled = FALSE
    /\ enabled_key_state = FALSE
    /\ now = 0
    /\ panicked = FALSE
    /\ op = "new"
    /\ result = "ok"
    /\ analog_data = None
    /\ events = <<>>
    /\ visited = {}
    /\ new_config_arg = None
    /\ sounding = [k \in NoteCodes |-> None]
    /\ send_failed = FALSE
    /\ stop = FALSE
    /\ lock = "free"
    /\ pc_poll = "start"
    /\ pc_ctl = "run"

service_vars == <<connection, config, key_states, enabled, enabled_key_state,
                  key_order, now, panicked, op, result, analog_data, events,
                  visited, new_config_arg, sounding, send_failed>>

\* Polling loop: `let mut service = service.lock().unwrap();`
polling_loop_lock ==
    /\ pc_poll = "start"
    /\ lock = "free"
    /\ lock' = "poller"
    /\ pc_poll' = "check"
    /\ UNCHANGED <<stop, pc_ctl>>
    /\ UNCHANGED service_vars

\* Mutant: the stop flag is read in a lock hold of its own, which ends
\* before poll is called.
polling_loop_check_stop_own_hold ==
    /\ pc_poll = "check"
    /\ lock' = "free"
    /\ pc_poll' = IF stop THEN "returned" ELSE "tick"
    /\ UNCHANGED <<stop, pc_ctl>>
    /\ UNCHANGED service_vars

\* Polling loop: `if service.stop { return Ok(()); }`; the return drops the
\* guard.
polling_loop_check_stop ==
    /\ pc_poll = "check"
    /\ IF stop
       THEN pc_poll' = "returned" /\ lock' = "free"
       ELSE pc_poll' = "tick" /\ UNCHANGED lock
    /\ UNCHANGED <<stop, pc_ctl>>
    /\ UNCHANGED service_vars

\* Polling loop: `service.midi.poll()?;`.  An error returns from the thread
\* and drops the guard, a panic poisons the mutex.
polling_loop_poll(read, fail_key) ==
    /\ pc_poll = "tick"
    /\ poll(read, fail_key)
    /\ pc_poll' = IF result' = "ok" THEN "polled"
                  ELSE IF result' = "panic" THEN "panicked" ELSE "returned"
    /\ lock' = IF result' = "ok" THEN lock
               ELSE IF result' = "panic" THEN "poisoned" ELSE "free"
    /\ UNCHANGED <<stop, pc_ctl>>

\* Polling loop: `drop(service); loop_helper.loop_sleep();`
polling_loop_drop ==
    /\ pc_poll = "polled"
    /\ lock' = "free"
    /\ pc_poll' = "start"
    /\ UNCHANGED <<stop, pc_ctl>>
    /\ UNCHANGED service_vars

\* Event loop, on Quit: `service.take().unwrap().lock().unwrap().stop = true;`
\* The guard lives for this statement only; a poisoned mutex panics the
\* unwrap.
event_loop_quit ==
    /\ pc_ctl = "run"
    /\ \/ /\ lock = "free"
          /\ stop' = TRUE
          /\ pc_ctl' = "join"
       \/ /\ lock = "poisoned"
          /\ pc_ctl' = "panicked"
          /\ UNCHANGED stop
    /\ UNCHANGED <<lock, pc_poll>>
    /\ UNCHANGED service_vars

\* Event loop: `handle.take().unwrap().join()` returns when the polling
\* thread has ended.
event_loop_join ==
    /\ pc_ctl = "join"
    /\ pc_poll \in {"returned", "panicked"}
    /\ pc_ctl' = "joined"
    /\ UNCHANGED <<stop, lock, pc_poll>>
    /\ UNCHANGED service_vars

polling_thread ==
    \/ polling_loop_lock
    \/ polling_loop_check_stop
    \/ \E read \in PollReads, fail_key \in FailKeys : polling_loop_poll(read, fail_key)
    \/ polling_loop_drop

MainNext ==
    \/ polling_thread
    \/ event_loop_quit
    \/ event_loop_join

\* The threads are scheduled: the polling thread's lock, stop check and drop
\* and the control thread's join take their step when they can; the Quit
\* event need never come.
MainSpec ==
    /\ MainInit
    /\ [][MainNext]_vars
    /\ WF_vars(polling_loop_lock)
    /\ WF_vars(polling_loop_check_stop)
    /\ WF_vars(polling_loop_drop)
    /\ WF_vars(event_loop_join)

\* ----------------------------------------------------------------- claims
\* The steps of the two operations the claims are about.
PollStep == op' = "poll" /\ now' = now + 1
SetConfigStep == op' = "set_config"

\* The number of sink calls of one type, and of any type, sent for a key.
CallsOfType(sent, key, type) ==
    Cardinality({i \in 1..Len(sent) : sent[i].key = key /\ sent[i].type = type})
CallsFor(sent, key) ==
    Cardinality({i \in 1..Len(sent) : sent[i].key = key})

\* The sample of a key in a snapshot.
Sample(read, key) ==
    IF key \in DOMAIN read[1] THEN read[1][key] ELSE 0

\* C1: while no sink send has failed under the live configuration, the
\* note_on and note_off calls update_value sends for a key alternate,
\* starting with a note_on: a note_on is sent only when the key's last
\* note_on has been followed by a note_off (or there was none), a note_off
\* only when it has not; a pressed key whose sample is above the threshold
\* gets no note_on and stays pressed, and a pressed key whose processed
\* sample is at or below the threshold gets exactly one note_off and is
\* no longer pressed.
C1_NoteOnOffAlternate ==
    [][(PollStep /\ ~send_failed') =>
        \A k \in DOMAIN key_states :
            LET ons == CallsOfType(events', k, "note_on")
                offs == CallsOfType(events', k, "note_off")
                was_on == sounding[k] # None /\ sounding[k][1].on
            IN  /\ ons + offs <= 1
                /\ ons = 1 => ~was_on /\ ~key_states[k].pressed /\ key_states'[k].pressed
                /\ offs = 1 => was_on /\ key_states[k].pressed /\ ~key_states'[k].pressed
                /\ (k \in visited' /\ key_states[k].pressed) =>
                      IF Sample(analog_data', k) > config.key_configs[k].threshold
                      THEN ons = 0 /\ offs = 0 /\ key_states'[k].pressed
                      ELSE offs = 1 /\ ~key_states'[k].pressed
    ]_vars

\* A pressed key has been sampled at or below its threshold and its note_off
\* was sent.
C1_Witness ==
    /\ op = "poll" /\ ~send_failed
    /\ \E i \in 1..Len(events) :
          /\ events[i].type = "note_off"
          /\ key_states[events[i].key].current_value
                <= config.key_configs[events[i].key].threshold

\* C2: update_value sends polyphonic_aftertouch for a key only if the key's
\* KeyConfig.aftertouch is true and the new sample differs from the stored
\* current_value.
C2_AftertouchOnlyIfConfigured ==
    [][PollStep =>
        \A k \in DOMAIN key_states :
            CallsOfType(events', k, "polyphonic_aftertouch") > 0 =>
                /\ config.key_configs[k].aftertouch
                /\ Sample(analog_data', k) # key_states[k].current_value
    ]_vars

\* C3: a poll leaves the shifted_amount of a key that is pressed when the
\* poll starts as it is, and every polyphonic_aftertouch and note_off sent
\* for a key, by update_value or by set_config, carries the note and the
\* channel of the key's last note_on.
C3_ShiftLatchedWhilePressed ==
    [][/\ PollStep =>
            \A k \in DOMAIN key_states :
                key_states[k].pressed =>
                    key_states'[k].shifted_amount = key_states[k].shifted_amount
       /\ (PollStep \/ SetConfigStep) =>
            \A i \in 1..Len(events') :
                events'[i].type \in {"polyphonic_aftertouch", "note_off"} =>
                    /\ sounding[events'[i].key] # None
                    /\ events'[i].note = sounding[events'[i].key][1].note
                    /\ events'[i].channel = sounding[events'[i].key][1].channel
    ]_vars

\* The modifier state has changed under a pressed key: the key's note_off is
\* sent with the note of its note_on while the modifier asks for another
\* shift.
C3_Witness ==
    /\ op = "poll"
    /\ \E i \in 1..Len(events) :
          LET k == events[i].key
          IN  /\ events[i].type = "note_off"
              /\ shift_for(any_pressed(config.modifier_keys, analog_data[1]),
                           config.key_configs[k]) # key_states[k].shifted_amount

\* C4: in a poll in which a visited key's note_id plus its latched
\* shifted_amount is outside [21,108], no sink call is sent for the key and
\* its pressed flag (which is false) does not change.
C4_OutOfRangeIsSilent ==
    [][PollStep =>
        \A k \in visited' :
            LET computed == config.key_configs[k].note_id + key_states'[k].shifted_amount
            IN  (computed < 21 \/ computed > 108) =>
                    /\ CallsFor(events', k) = 0
                    /\ key_states'[k].pressed = key_states[k].pressed
                    /\ ~key_states[k].pressed
    ]_vars

\* A key whose shifted note is 112 is sampled above its threshold and sends
\* nothing.
C4_Witness ==
    /\ op = "poll" /\ result = "ok"
    /\ \E k \in visited :
          /\ config.key_configs[k].note_id + key_states[k].shifted_amount > 108
          /\ Sample(analog_data, k) > config.key_configs[k].threshold
          /\ CallsFor(events, k) = 0
          /\ ~key_states[k].pressed

\* C5: enabled starts false, and a poll that has read a snapshot flips
\* enabled exactly when some toggle key has a depth above 0 in the snapshot
\* and the stored enabled_key_state was false; it stores the toggle keys'
\* state in enabled_key_state.
C5_ToggleIsEdgeTriggered ==
    ~enabled /\
    [][(PollStep /\ analog_data' # None) =>
        LET toggle_pressed ==
                \E c \in config.toggle_keys :
                    c \in DOMAIN analog_data'[1] /\ analog_data'[1][c] > 0
        IN  /\ (enabled' # enabled) <=> (toggle_pressed /\ ~enabled_key_state)
            /\ enabled_key_state' = toggle_pressed
    ]_vars

\* The toggle key has been pressed, released and pressed again: enabled is
\* false again with the toggle key down.
C5_Witness ==
    /\ op = "poll" /\ analog_data # None
    /\ enabled_key_state /\ ~enabled
    /\ now >= 3

\* C6: a poll that has read a snapshot and leaves enabled false sends
\* nothing, visits no key and leaves every KeyState as it was.
C6_DisabledTickIsInert ==
    [][(PollStep /\ analog_data' # None /\ ~enabled') =>
        /\ events' = <<>>
        /\ visited' = {}
        /\ key_states' = key_states
    ]_vars

\* A pressed key is sampled at depth 0 in a disabled tick and stays pressed.
C6_Witness ==
    /\ op = "poll" /\ result = "ok" /\ analog_data # None /\ ~enabled
    /\ \E k \in DOMAIN key_states :
          key_states[k].pressed /\ Sample(analog_data, k) = 0

\* The note_off set_config owes a pressed key: the old configuration's note
\* with the latched shift, the stored velocity and the old channel.
OwedNoteOff(k) ==
    SinkCall("note_off", k,
             config.key_configs[k].note_id + key_states[k].shifted_amount,
             key_states[k].velocity, config.key_configs[k].channel)

\* C7 as claimed: a set_config that returns Ok has sent the owed note_off
\* for every key that was pressed.
C7_NoteOffForEveryPressedKey ==
    [][(SetConfigStep /\ result' = "ok") =>
        \A k \in DOMAIN key_states :
            key_states[k].pressed =>
                \E i \in 1..Len(events') : events'[i] = OwedNoteOff(k)
    ]_vars

\* C7 as amended: with a connection open, a set_config that returns Ok has
\* sent exactly the owed note_off, once, for every key that was pressed and
\* has sent nothing else; with no connection open, set_config sends nothing
\* and returns Ok.
C7_NoteOffWhenConnected ==
    [][SetConfigStep =>
        /\ (connection /\ result' = "ok") =>
              /\ \A k \in DOMAIN key_states :
                    key_states[k].pressed =>
                        /\ \E i \in 1..Len(events') : events'[i] = OwedNoteOff(k)
                        /\ CallsFor(events', k) = 1
              /\ \A i \in 1..Len(events') :
                    /\ events'[i].key \in DOMAIN key_states
                    /\ key_states[events'[i].key].pressed
                    /\ events'[i] = OwedNoteOff(events'[i].key)
        /\ ~connection => (events' = <<>> /\ result' = "ok")
    ]_vars

\* set_config has sent the note_off of two pressed keys.
C7_Witness ==
    /\ op = "set_config" /\ result = "ok"
    /\ Len(events) = 2

\* C8: after a set_config that returned Ok, the live configuration is the
\* one it was called with, the keys with a KeyState are the keys of its
\* key_configs, and every KeyState is unpressed, unshifted, with velocity
\* and current_value 0 and no anchor.
C8_SetConfigReplacesEverything ==
    (op = "set_config" /\ result = "ok") =>
        /\ new_config_arg # None
        /\ config = new_config_arg[1]
        /\ DOMAIN key_states = DOMAIN new_config_arg[1].key_configs
        /\ \A k \in DOMAIN key_states :
              key_states[k] = [pressed |-> FALSE, shifted_amount |-> 0, velocity |-> 0,
                               current_value |-> 0, lower_press |-> <<>>]

\* set_config has released the pressed key F14 and the new configuration has
\* no F14.
C8_Witness ==
    /\ op = "set_config" /\ result = "ok"
    /\ \E i \in 1..Len(events) : events[i].key = "F14"
    /\ "F14" \notin DOMAIN key_states

\* C9: after a poll, at most one sink call was sent for each key, and none
\* for a key that is not in key_configs.
C9_AtMostOneCallPerKey ==
    op = "poll" =>
        \A k \in SnapshotCodes \cup {"RightShift"} :
            /\ CallsFor(events, k) <= 1
            /\ k \notin DOMAIN config.key_configs => CallsFor(events, k) = 0

\* Both configured keys have sent a call in one tick in which a key that is
\* not configured was down.
C9_Witness ==
    /\ op = "poll" /\ analog_data # None
    /\ Len(events) = 2
    /\ Sample(analog_data, "LeftShift") > 0

\* C10: a poll with no connection open returns the no-connection error, has
\* read no snapshot, has sent nothing and leaves enabled, enabled_key_state
\* and every KeyState as they were.
C10_PollWithoutConnection ==
    [][(PollStep /\ ~connection) =>
        /\ result' = "no_connection"
        /\ analog_data' = None
        /\ events' = <<>>
        /\ visited' = {}
        /\ UNCHANGED <<enabled, enabled_key_state, key_states>>
    ]_vars

\* poll has failed for want of a connection while a key was pressed.
C10_Witness ==
    /\ op = "poll" /\ result = "no_connection"
    /\ enabled
    /\ \E k \in DOMAIN key_states : key_states[k].pressed

\* The keys of the iteration order up to position j.
Prefix(order, j) == {order[i] : i \in 1..j}

\* The sink calls sent for a key, in order.
RECURSIVE CallsOf(_, _)
CallsOf(sent, key) ==
    IF sent = <<>> THEN <<>>
    ELSE IF sent[1].key = key THEN <<sent[1]>> \o CallsOf(Tail(sent), key)
    ELSE CallsOf(Tail(sent), key)

\* What update_value does to key k with the snapshot `read` at time t when
\* its send succeeds.
Updated(k, read, t) ==
    update_value(key_states[k], k, config.key_configs[k], Sample(read, k), FALSE,
                 shift_for(any_pressed(config.modifier_keys, read[1]),
                           config.key_configs[k]), t, LogInfoEnabled)

\* C11: a poll that returns a send error has stopped at the key whose send
\* failed: the keys after it in the iteration order are not visited, keep
\* their KeyState and have no sink call; the keys before it have the
\* KeyState and the sink calls of a successful update_value; the toggle
\* step's enabled and enabled_key_state are kept; the failing key has no sink
\* call.
C11_SendErrorAbortsTick ==
    [][(PollStep /\ result' = "send_error") =>
        \E j \in 1..Len(key_order) :
            /\ visited' = Prefix(key_order, j)
            /\ CallsFor(events', key_order[j]) = 0
            /\ \A i \in (j + 1)..Len(key_order) :
                  /\ key_states'[key_order[i]] = key_states[key_order[i]]
                  /\ CallsFor(events', key_order[i]) = 0
            /\ \A i \in 1..(j - 1) :
                  LET k == key_order[i]
                      done == Updated(k, analog_data', now')
                  IN  /\ done.result = "ok"
                      /\ key_states'[k] = done.state
                      /\ CallsOf(events', k) = done.sent
            /\ enabled'
            /\ enabled_key_state' = any_pressed(config.toggle_keys, analog_data'[1])
            /\ (enabled' # enabled) <=> (enabled_key_state' /\ ~enabled_key_state)
    ]_vars

\* The send of the second key has failed in the tick that enabled the engine,
\* after the first key's note_on was sent and its KeyState set to pressed.
C11_Witness ==
    /\ op = "poll" /\ result = "send_error"
    /\ Len(key_order) = 2 /\ visited = {key_order[1], key_order[2]}
    /\ Len(events) = 1 /\ events[1].type = "note_on" /\ events[1].key = key_order[1]
    /\ key_states[key_order[1]].pressed

\* C12: in every state every key's velocity lies in [0,1] (0..1000
\* thousandths) and its current_value in [0,1] (0..100 hundredths), and the
\* data byte of every sink call sent lies in [0,127].
C12_ValuesInRange ==
    /\ \A k \in DOMAIN key_states :
          /\ key_states[k].velocity >= 0 /\ key_states[k].velocity <= 1000
          /\ key_states[k].current_value >= 0 /\ key_states[k].current_value <= 100
    /\ \A i \in 1..Len(events) :
          /\ midi_bytes(events[i])[3] >= 0
          /\ midi_bytes(events[i])[3] <= 127

\* A key has gone from depth 0 to above its threshold within one polling
\* period with velocity_scale 5.0: the estimate exceeds 1 before the clamp,
\* and the note_on carries the data byte 127.
C12_Witness ==
    /\ op = "poll"
    /\ \E i \in 1..Len(events) :
          LET k == events[i].key
          IN  /\ events[i].type = "note_on"
              /\ key_states[k].lower_press # None
              /\ (key_states[k].current_value - key_states[k].lower_press[1].depth)
                    * config.key_configs[k].velocity_scale * 10
                    > 1000 * (now - key_states[k].lower_press[1].time) * TickMs
              /\ key_states[k].velocity = 1000
              /\ midi_bytes(events[i])[3] = 127

\* round(num / den) for num >= 0, den > 0: halves go away from zero.
RoundDiv(num, den) == (2 * num + den) \div (2 * den)

\* C13: for every sink call with a note in [21,108], a channel in [0,15] and
\* a value in [0,1], the sink sends exactly the three bytes status | channel
\* (0x90 note_on, 0x80 note_off, 0xA0 polyphonic_aftertouch), the note, and
\* min(value, 1.0) * 127 rounded to the nearest integer.
C13_DataByteIsRounded ==
    \A i \in 1..Len(events) :
        LET e == events[i]
            one == IF e.type = "polyphonic_aftertouch" THEN 100 ELSE 1000
            status == CASE e.type = "note_on" -> 144
                        [] e.type = "note_off" -> 128
                        [] e.type = "polyphonic_aftertouch" -> 160
        IN  (e.note \in 21..108 /\ e.channel \in 0..15 /\ e.value \in 0..one) =>
                midi_bytes(e) = <<status + e.channel, e.note,
                                  RoundDiv((IF e.value < one THEN e.value ELSE one) * 127, one)>>

\* C14: in a poll that returns Ok, a visited key that is unpressed, has an
\* anchor (as after a tick at a depth at or below the actuation point), has
\* an in-range effective note and whose sample is above the threshold and not
\* below its last sample gets exactly one note_on, for the effective note on
\* the key's channel, whose velocity is
\* clamp((sample - anchor depth) / elapsed * velocity_scale / 100, 0, 1) with
\* the anchor stored in lower_press and the time elapsed since it, and the
\* key is pressed afterwards; no note_on is sent for a key whose sample is
\* at or below the threshold or that is already pressed.
C14_NoteOnAtFirstCrossing ==
    [][PollStep =>
        \A k \in visited' :
            LET key_config == config.key_configs[k]
                sample == Sample(analog_data', k)
                computed == key_config.note_id + key_states'[k].shifted_amount
                ons == {i \in 1..Len(events') :
                            events'[i].key = k /\ events'[i].type = "note_on"}
            IN  /\ (/\ result' = "ok"
                    /\ ~key_states[k].pressed
                    /\ key_states[k].lower_press # <<>>
                    /\ sample >= key_states[k].current_value
                    /\ sample > key_config.threshold
                    /\ computed \in 21..108) =>
                       LET anchor == key_states[k].lower_press[1]
                           elapsed_ms == (now' - anchor.time) * 5
                           raw == ((sample - anchor.depth) * key_config.velocity_scale * 10)
                                     \div elapsed_ms
                           expected == IF raw < 0 THEN 0 ELSE IF raw > 1000 THEN 1000 ELSE raw
                       IN  /\ Cardinality(ons) = 1
                           /\ \A i \in ons :
                                 /\ events'[i].value = expected
                                 /\ events'[i].note = computed
                                 /\ events'[i].channel = key_config.channel
                           /\ key_states'[k].pressed
                /\ (sample <= key_config.threshold \/ key_states[k].pressed) => ons = {}
    ]_vars

\* A key anchored at depth 0 two polling periods ago has risen above its
\* threshold: its note_on carries a velocity strictly between 0 and 1.
C14_Witness ==
    /\ op = "poll" /\ result = "ok"
    /\ \E i \in 1..Len(events) :
          LET k == events[i].key
          IN  /\ events[i].type = "note_on"
              /\ events[i].value > 0 /\ events[i].value < 1000
              /\ key_states[k].lower_press # <<>>
              /\ key_states[k].lower_press[1].depth = 0
              /\ key_states[k].lower_press[1].time = now - 2

\* The key at which a poll that returned a send error stopped.
FailedKey(order, seen) == order[Cardinality(seen)]

\* C16: in a poll that returns a send error, the key whose send failed keeps
\* the pressed flag and the current_value it had before the call (the send
\* that failed is a note_on for an unpressed key sampled above the
\* threshold, a note_off for a pressed key sampled at or below it, or the
\* aftertouch of a pressed key whose sample has changed), and its anchor,
\* velocity and shifted_amount are those of the anchor and latch steps.
C16_FailedSendKeepsPressed ==
    [][(PollStep /\ result' = "send_error") =>
        LET k == FailedKey(key_order, visited')
            key_config == config.key_configs[k]
            sample == Sample(analog_data', k)
            steps == latch_shift(
                        update_anchor(key_states[k], key_config, sample, now'),
                        shift_for(any_pressed(config.modifier_keys, analog_data'[1]),
                                  key_config))
        IN  /\ key_states'[k].pressed = key_states[k].pressed
            /\ key_states'[k].current_value = key_states[k].current_value
            /\ sample > key_config.threshold \/ key_states'[k].pressed
            /\ (sample > key_config.threshold /\ key_states'[k].pressed) =>
                    sample # key_states[k].current_value
            /\ key_states'[k].lower_press = steps.lower_press
            /\ key_states'[k].velocity = steps.velocity
            /\ key_states'[k].shifted_amount = steps.shifted_amount
    ]_vars

\* A note_on has failed: the key is unpressed with its old current_value,
\* and the velocity estimated and the shift latched in the call remain.
C16_Witness ==
    /\ op = "poll" /\ result = "send_error"
    /\ LET k == FailedKey(key_order, visited)
       IN  /\ ~key_states[k].pressed
           /\ Sample(analog_data, k) > config.key_configs[k].threshold
           /\ key_states[k].current_value = 0
           /\ key_states[k].velocity > 0
           /\ key_states[k].shifted_amount # 0

\* C17: in every state, a pressed key's stored current_value is greater than
\* its threshold, and its note_id plus its shifted_amount lies in [21,108]
\* and is the note of the last note_on sent for the key.
C17_PressedMeansAboveThreshold ==
    \A k \in DOMAIN key_states :
        key_states[k].pressed =>
            /\ key_states[k].current_value > config.key_configs[k].threshold
            /\ config.key_configs[k].note_id + key_states[k].shifted_amount >= 21
            /\ config.key_configs[k].note_id + key_states[k].shifted_amount <= 108
            /\ sounding[k] # <<>>
            /\ sounding[k][1].note =
                  config.key_configs[k].note_id + key_states[k].shifted_amount

\* The note_off of a pressed key has failed with the sample below the
\* threshold and the modifier asking for a shift that leaves the MIDI range:
\* the key is still pressed, with its old current_value and shift.
C17_Witness ==
    /\ op = "poll" /\ result = "send_error"
    /\ \E k \in visited :
          /\ key_states[k].pressed
          /\ Sample(analog_data, k) <= config.key_configs[k].threshold
          /\ config.key_configs[k].note_id
                + shift_for(any_pressed(config.modifier_keys, analog_data[1]),
                            config.key_configs[k]) > 108

\* C18: whenever a poll takes a visited key into the note_on branch (the key
\* is unpressed, its effective note is in range, its sample is above the
\* threshold), the key's lower_press is present after the anchor step, and
\* the poll does not panic.
C18_AnchorPresentAtNoteOn ==
    [][PollStep =>
        /\ result' # "panic"
        /\ \A k \in visited' :
              LET key_config == config.key_configs[k]
                  sample == Sample(analog_data', k)
                  computed == key_config.note_id + key_states'[k].shifted_amount
              IN  (/\ ~key_states[k].pressed
                   /\ computed \in 21..108
                   /\ sample > key_config.threshold) =>
                      update_anchor(key_states[k], key_config, sample, now').lower_press
                          # <<>>
    ]_vars

\* C19: in every state the keys that have a KeyState are the keys of the
\* live config.key_configs, and the iteration order of poll lists exactly
\* them.
C19_KeyStatesMatchConfig ==
    /\ DOMAIN key_states = DOMAIN config.key_configs
    /\ {key_order[i] : i \in 1..Len(key_order)} = DOMAIN config.key_configs

\* A set_config has failed on a note_off while two keys were configured, after
\* a poll: the old configuration and its two KeyStates are still live.
C19_Witness ==
    /\ op = "set_config" /\ result = "send_error"
    /\ DOMAIN key_states = {"F13", "F14"}
    /\ now >= 2

\* C20: a set_config whose note_off send fails returns the error and leaves
\* the live configuration, every KeyState (with the pressed flag of the keys
\* whose note_off it has already sent), enabled and the connection exactly
\* as they were.
C20_FailedSetConfigSwapsNothing ==
    [][(SetConfigStep /\ result' # "ok") =>
        /\ result' = "send_error"
        /\ UNCHANGED <<config, key_states, key_order, enabled, enabled_key_state,
                       connection>>
    ]_vars

\* Two keys were pressed: the first note_off was sent, the second has failed,
\* and both keys are still pressed.
C20_Witness ==
    /\ op = "set_config" /\ result = "send_error"
    /\ Len(events) = 1 /\ events[1].type = "note_off"
    /\ \A k \in DOMAIN key_states : key_states[k].pressed
    /\ Cardinality(DOMAIN key_states) = 2

\* C15: the polling loop calls poll only in the lock hold in which it has
\* just found stop false, so no poll starts once stop is set; from the stop
\* check to the end of the tick the polling thread holds the lock and stop
\* does not change (the control thread sets it only with the lock free,
\* between ticks); and once stop is set the polling thread ends and the
\* control thread's join returns.
C15_StopOnlyAtTickBoundary ==
    /\ [][
          /\ (op' = "poll" /\ now' = now + 1) =>
                (pc_poll = "tick" /\ lock = "poller" /\ ~stop)
          /\ pc_poll' = "tick" => (pc_poll = "check" /\ ~stop /\ lock' = "poller")
          /\ pc_poll \in {"check", "tick", "polled"} =>
                (lock = "poller" /\ stop' = stop /\ pc_ctl' = pc_ctl)
          /\ stop => stop'
       ]_vars
    /\ (stop ~> (pc_ctl = "joined" /\ pc_poll = "returned"))

\* Quit came after two ticks: stop was set between ticks, the polling thread
\* has found it at its next stop check and ended without another poll, and
\* the join has returned.
C15_Witness ==
    /\ pc_ctl = "joined" /\ pc_poll = "returned" /\ stop
    /\ op = "poll" /\ result = "ok" /\ now = 2
    /\ events # <<>>

====
